---- MODULE Spec2Model ----
(***************************************************************************)
(* Model of src/src/main.cpp: the Win32 + Vulkan bootstrap (window class,  *)
(* window, layer/extension enumeration, instance, physical device          *)
(* selection, logical device, window surface), the message loop and the    *)
(* exit handlers registered with atexit.                                   *)
(*                                                                         *)
(* The program is single-threaded; pc is its position.  Every backend call *)
(* is one step whose result is drawn from the results the backend may      *)
(* return.  `calls` records the backend calls in the order issued.         *)
(***************************************************************************)
EXTENDS Integers, Sequences, FiniteSets, TLC

\* ------------------------------------------------------------------------
\* Bounds of the model.
MaxDevices == 2
MaxFamilies == 2
MaxLayers == 2
MaxMessages == 3
MaxShutdownCalls == 2
MaxResultCode == 60

\* ------------------------------------------------------------------------
\* Program constants.
VK_NULL_HANDLE == 0
VK_SUCCESS == 0
VK_INCOMPLETE == 5
VK_ERROR_OUT_OF_HOST_MEMORY == -1
VK_ERROR_OUT_OF_DEVICE_MEMORY == -2
VK_ERROR_INITIALIZATION_FAILED == -3
VK_ERROR_LAYER_NOT_PRESENT == -6
VK_ERROR_EXTENSION_NOT_PRESENT == -7
VK_ERROR_INCOMPATIBLE_DRIVER == -9
VK_QUEUE_GRAPHICS_BIT == 1
VK_QUEUE_COMPUTE_BIT == 2
EXIT_FAILURE == 1
EXIT_REGISTER_CLASS == -1
EXIT_ABORT == 3
EXIT_ACCESS_VIOLATION == -1073741819

\* main.cpp:25-29.  With NDEBUG defined the file declares
\* enabledValidationLayers, a name nothing reads, while lines 219 and 406
\* read enableValidationLayers: that build does not compile.  The program
\* that exists is the build without NDEBUG, where assert() is active.
NDEBUG == FALSE
enableValidationLayers == TRUE

VALIDATION_LAYERS == <<"VK_LAYER_LUNARG_standard_validation">>
EXTENSIONS == <<"VK_EXT_debug_utils", "VK_KHR_surface", "VK_KHR_win32_surface">>

\* ------------------------------------------------------------------------
VARIABLES
  pc,                 \* position of the single thread
  atexitHandlers,     \* functions registered with atexit, in registration order
  term,               \* "none" | "exit" | "abort" | "fault"
  exitStatus,         \* process exit status once term # "none"
  sHWND, windowLive, classRegistered, quitPosted, msgCount,
  sInstance, sPhysicalDevice, sQueueFamilyIndex, sLogicalDevice, sSurface,
  instanceLive, deviceLive, surfaceLive,   \* backend objects that exist
  layerCount, extensionCount, deviceCount, devices, function, instanceInfo,
  createInfo,
  calls,              \* backend calls issued so far
  described,          \* the result code last described on stdout, with its text
  selectDone,         \* the selection loop has completed
  shutdownCount,      \* number of invocations of shutdown()
  shutdownStep        \* number of destroy calls issued by the running shutdown()

proc == <<pc, atexitHandlers, term, exitStatus>>
win == <<sHWND, windowLive, classRegistered, quitPosted, msgCount>>
handles == <<sInstance, sPhysicalDevice, sQueueFamilyIndex, sLogicalDevice, sSurface>>
backend == <<instanceLive, deviceLive, surfaceLive>>
locals ==
  <<layerCount, extensionCount, deviceCount, devices, function, instanceInfo, createInfo>>
ghost == <<calls, selectDone, shutdownCount, shutdownStep>>
vars == <<proc, win, handles, backend, locals, ghost, described>>

\* ------------------------------------------------------------------------
\* Values drawn for the backend's answers.
EnumerationErrors == {VK_ERROR_OUT_OF_HOST_MEMORY}
CreateErrors == {VK_ERROR_INITIALIZATION_FAILED, VK_ERROR_LAYER_NOT_PRESENT}
QueueFlagValues == {VK_QUEUE_COMPUTE_BIT, VK_QUEUE_GRAPHICS_BIT + VK_QUEUE_COMPUTE_BIT}
FamilyLists == UNION {[1..n -> QueueFlagValues] : n \in 0..MaxFamilies}
DeviceDescriptors ==
  [geometryShader : BOOLEAN, tessellationShader : BOOLEAN, queueFamilies : FamilyLists]
DeviceLists == UNION {[1..n -> DeviceDescriptors] : n \in 0..MaxDevices}
Messages == {"WM_CLOSE", "WM_DESTROY", "WM_PAINT"}

NoInstanceInfo == [layers |-> <<>>, extensions |-> <<>>, built |-> FALSE]
NoCreateInfo ==
  [queueFamilyIndex |-> 0, queueCount |-> 0, layers |-> <<>>,
   enabledExtensionCount |-> 0, features |-> {}, built |-> FALSE]

Call(fn, result, handle) == [fn |-> fn, result |-> result, handle |-> handle]

NoDescription == [result |-> VK_SUCCESS, text |-> <<>>]

\* ------------------------------------------------------------------------
\* The globals of lines 36-47 and the process before WinMain is entered.
InitGlobals ==
  /\ atexitHandlers = <<>>
  /\ term = "none"
  /\ exitStatus = 0
  /\ sHWND = 0
  /\ windowLive = FALSE
  /\ classRegistered = FALSE
  /\ quitPosted = FALSE
  /\ msgCount = 0
  /\ sInstance = VK_NULL_HANDLE
  /\ sPhysicalDevice = VK_NULL_HANDLE
  /\ sQueueFamilyIndex = 0
  /\ sLogicalDevice = VK_NULL_HANDLE
  /\ sSurface = VK_NULL_HANDLE
  /\ instanceLive = FALSE
  /\ deviceLive = FALSE
  /\ surfaceLive = FALSE
  /\ layerCount = 0
  /\ extensionCount = 0
  /\ deviceCount = 0
  /\ devices = <<>>
  /\ function = FALSE
  /\ instanceInfo = NoInstanceInfo
  /\ createInfo = NoCreateInfo
  /\ calls = <<>>
  /\ selectDone = FALSE
  /\ shutdownCount = 0
  /\ shutdownStep = 0

Init ==
  /\ pc = "WinMain"
  /\ described = NoDescription
  /\ InitGlobals

\* ------------------------------------------------------------------------
\* Control transfer.
Goto(label) == pc' = label /\ UNCHANGED <<term, exitStatus>>

\* exit(status): the handlers registered with atexit run next.
Exit(status) == pc' = "atexit" /\ term' = "exit" /\ exitStatus' = status

\* abort() or a hardware fault: the process ends at once, no handler runs.
Die(kind, status) == pc' = "terminated" /\ term' = kind /\ exitStatus' = status

\* The checks `if (result != VK_SUCCESS)` of the bootstrap.
Failed(result) == result # VK_SUCCESS

\* ------------------------------------------------------------------------
\* Text is a sequence of pieces: a literal is one piece, a number printed in
\* decimal is one piece per character.
DigitChars == <<"0", "1", "2", "3", "4", "5", "6", "7", "8", "9">>

\* std::to_string on a non-negative int: its decimal digits.
RECURSIVE DecimalDigits(_)
DecimalDigits(n) ==
  IF n < 10
  THEN <<DigitChars[n + 1]>>
  ELSE DecimalDigits(n \div 10) \o <<DigitChars[(n % 10) + 1]>>

\* Line 74: std::to_string(result), a minus sign before a negative value.
to_string(n) == IF n < 0 THEN <<"-">> \o DecimalDigits(-n) ELSE DecimalDigits(n)

\* vulkan_result_description with the two memory texts exchanged.
vulkan_result_description_swapped(result) ==
  CASE result = VK_SUCCESS -> <<"Command successfully completed.">>
    [] result = VK_INCOMPLETE -> <<"A return array was too small for the result.">>
    [] result = VK_ERROR_OUT_OF_HOST_MEMORY -> <<"A device memory allocation has failed.">>
    [] result = VK_ERROR_OUT_OF_DEVICE_MEMORY -> <<"A host memory allocation has failed.">>
    [] result = VK_ERROR_INITIALIZATION_FAILED ->
         <<"Initialization of an object could not be completed.">>
    [] result = VK_ERROR_LAYER_NOT_PRESENT ->
         <<"A requested layer is not present or could not be loaded.">>
    [] result = VK_ERROR_EXTENSION_NOT_PRESENT -> <<"A requested extension is not supported.">>
    [] result = VK_ERROR_INCOMPATIBLE_DRIVER ->
         <<"The requested version of Vulkan is not supported by the driver.">>
    [] OTHER -> <<"An unknown result code [">> \o to_string(result) \o <<"] occured.">>

\* vulkan_result_description, lines 53-76.
vulkan_result_description(result) ==
  CASE result = VK_SUCCESS -> <<"Command successfully completed.">>
    [] result = VK_INCOMPLETE -> <<"A return array was too small for the result.">>
    [] result = VK_ERROR_OUT_OF_HOST_MEMORY -> <<"A host memory allocation has failed.">>
    [] result = VK_ERROR_OUT_OF_DEVICE_MEMORY -> <<"A device memory allocation has failed.">>
    [] result = VK_ERROR_INITIALIZATION_FAILED ->
         <<"Initialization of an object could not be completed.">>
    [] result = VK_ERROR_LAYER_NOT_PRESENT ->
         <<"A requested layer is not present or could not be loaded.">>
    [] result = VK_ERROR_EXTENSION_NOT_PRESENT -> <<"A requested extension is not supported.">>
    [] result = VK_ERROR_INCOMPATIBLE_DRIVER ->
         <<"The requested version of Vulkan is not supported by the driver.">>
    [] OTHER -> <<"An unknown result code [">> \o to_string(result) \o <<"] occured.">>

\* A checked backend call: it is recorded, and a result that fails the check
\* is described on stdout (the printf before each exit(EXIT_FAILURE)).
Report(fn, result, handle) ==
  /\ calls' = Append(calls, Call(fn, result, handle))
  /\ described' = IF Failed(result)
                  THEN [result |-> result, text |-> vulkan_result_description(result)]
                  ELSE described

\* ------------------------------------------------------------------------
\* WinMain, line 568: atexit(shutdown).
WinMainStart ==
  /\ pc = "WinMain"
  /\ atexitHandlers' = Append(atexitHandlers, "shutdown")
  /\ Goto("register_window_class")
  /\ UNCHANGED <<win, handles, backend, locals, ghost, described>>

RegisterWindowClass ==
  /\ pc = "register_window_class"
  /\ \E ok \in BOOLEAN :
       IF ok
       THEN /\ classRegistered' = TRUE
            /\ atexitHandlers' = Append(atexitHandlers, "unregister_window_class")
            /\ Goto("create_window")
       ELSE /\ Exit(EXIT_REGISTER_CLASS)
            /\ UNCHANGED <<classRegistered, atexitHandlers>>
  /\ UNCHANGED <<sHWND, windowLive, quitPosted, msgCount, handles, backend, locals, ghost, described>>

CreateWindow ==
  /\ pc = "create_window"
  /\ \E ok \in BOOLEAN :
       IF ok
       THEN /\ sHWND' = 1
            /\ windowLive' = TRUE
            /\ atexitHandlers' = Append(atexitHandlers, "destroy_window")
            /\ Goto("layers_count")
       ELSE /\ Exit(EXIT_FAILURE)
            /\ UNCHANGED <<sHWND, windowLive, atexitHandlers>>
  /\ UNCHANGED <<classRegistered, quitPosted, msgCount, handles, backend, locals, ghost, described>>

\* ------------------------------------------------------------------------
\* The count-then-fill protocol of the backend: the fill call reports
\* VK_INCOMPLETE when more records exist than the buffer holds.
FillResult(count, actual) == IF actual > count THEN VK_INCOMPLETE ELSE VK_SUCCESS

Min(a, b) == IF a < b THEN a ELSE b

\* init_vulkan, lines 293-298: vkEnumerateInstanceLayerProperties(&layerCount, NULL).
LayersCount ==
  /\ pc = "layers_count"
  /\ \E result \in {VK_SUCCESS} \cup EnumerationErrors, n \in 0..MaxLayers :
       /\ Report("vkEnumerateInstanceLayerProperties(count)", result, 0)
       /\ IF Failed(result)
          THEN Exit(EXIT_FAILURE) /\ UNCHANGED layerCount
          ELSE Goto("layers_fill") /\ layerCount' = n
  /\ UNCHANGED <<atexitHandlers, win, handles, backend, extensionCount, deviceCount,
                 devices, function, instanceInfo, createInfo, selectDone,
                 shutdownCount, shutdownStep>>

\* init_vulkan, lines 301-306: the fill call; `actual` is the number of layers
\* the backend has at the time of this call.
LayersFill ==
  /\ pc = "layers_fill"
  /\ \E actual \in 0..MaxLayers :
     \E result \in {FillResult(layerCount, actual)} \cup EnumerationErrors :
       /\ Report("vkEnumerateInstanceLayerProperties(fill)", result, 0)
       /\ layerCount' = IF result \in EnumerationErrors THEN layerCount
                        ELSE Min(layerCount, actual)
       /\ IF Failed(result) THEN Exit(EXIT_FAILURE) ELSE Goto("extensions_count")
  /\ UNCHANGED <<atexitHandlers, win, handles, backend, extensionCount, deviceCount,
                 devices, function, instanceInfo, createInfo, selectDone,
                 shutdownCount, shutdownStep>>

\* init_vulkan, lines 338-343.
ExtensionsCount ==
  /\ pc = "extensions_count"
  /\ \E result \in {VK_SUCCESS} \cup EnumerationErrors, n \in 0..MaxLayers :
       /\ Report("vkEnumerateInstanceExtensionProperties(count)", result, 0)
       /\ IF Failed(result)
          THEN Exit(EXIT_FAILURE) /\ UNCHANGED extensionCount
          ELSE Goto("extensions_fill") /\ extensionCount' = n
  /\ UNCHANGED <<atexitHandlers, win, handles, backend, layerCount, deviceCount,
                 devices, function, instanceInfo, createInfo, selectDone,
                 shutdownCount, shutdownStep>>

\* init_vulkan, lines 346-351.
ExtensionsFill ==
  /\ pc = "extensions_fill"
  /\ \E actual \in 0..MaxLayers :
     \E result \in {FillResult(extensionCount, actual)} \cup EnumerationErrors :
       /\ Report("vkEnumerateInstanceExtensionProperties(fill)", result, 0)
       /\ extensionCount' = IF result \in EnumerationErrors THEN extensionCount
                            ELSE Min(extensionCount, actual)
       /\ IF Failed(result) THEN Exit(EXIT_FAILURE) ELSE Goto("create_instance")
  /\ UNCHANGED <<atexitHandlers, win, handles, backend, layerCount, deviceCount,
                 devices, function, instanceInfo, createInfo, selectDone,
                 shutdownCount, shutdownStep>>

\* RequestedInstanceInfoFor with the extensions requested in both branches.
RequestedInstanceInfoKeepsExtensions(enabled) ==
  IF enabled
  THEN [layers |-> VALIDATION_LAYERS, extensions |-> EXTENSIONS, built |-> TRUE]
  ELSE [layers |-> <<>>, extensions |-> EXTENSIONS, built |-> TRUE]

\* Lines 406-424: the two branches of `if (enableValidationLayers)`.
RequestedInstanceInfoFor(enabled) ==
  IF enabled
  THEN [layers |-> VALIDATION_LAYERS, extensions |-> EXTENSIONS, built |-> TRUE]
  ELSE [layers |-> <<>>, extensions |-> <<>>, built |-> TRUE]

\* init_vulkan, lines 401-424: the layers and extensions requested.
RequestedInstanceInfo == RequestedInstanceInfoFor(enableValidationLayers)

\* init_vulkan, lines 401-450: build the descriptor and call vkCreateInstance.
\* layerCount and extensionCount were last read by the prints of lines 309
\* and 354; nothing reads them from here on.
CreateInstance ==
  /\ pc = "create_instance"
  /\ instanceInfo' = RequestedInstanceInfo
  /\ layerCount' = 0
  /\ extensionCount' = 0
  /\ \E result \in {VK_SUCCESS} \cup CreateErrors :
       /\ Report("vkCreateInstance", result, 0)
       /\ IF Failed(result)
          THEN Exit(EXIT_FAILURE) /\ UNCHANGED <<sInstance, instanceLive>>
          ELSE Goto("devices_count") /\ sInstance' = 1 /\ instanceLive' = TRUE
  /\ UNCHANGED <<atexitHandlers, win, sPhysicalDevice, sQueueFamilyIndex, sLogicalDevice,
                 sSurface, deviceLive, surfaceLive, deviceCount, devices, function,
                 createInfo, selectDone, shutdownCount, shutdownStep>>

\* ------------------------------------------------------------------------
\* DevicesCount with the result of the count call ignored.
DevicesCountUnchecked ==
  /\ pc = "devices_count"
  /\ \E result \in {VK_SUCCESS} \cup EnumerationErrors, n \in 0..MaxDevices :
       /\ Report("vkEnumeratePhysicalDevices(count)", result, 0)
       /\ Goto("devices_fill")
       /\ deviceCount' = IF Failed(result) THEN 0 ELSE n
  /\ UNCHANGED <<atexitHandlers, win, handles, backend, layerCount, extensionCount,
                 devices, function, instanceInfo, createInfo, selectDone,
                 shutdownCount, shutdownStep>>

\* enumerate_physical_devices, lines 104-109: the count call.
DevicesCount ==
  /\ pc = "devices_count"
  /\ \E result \in {VK_SUCCESS} \cup EnumerationErrors, n \in 0..MaxDevices :
       /\ Report("vkEnumeratePhysicalDevices(count)", result, 0)
       /\ IF Failed(result)
          THEN Exit(EXIT_FAILURE) /\ UNCHANGED deviceCount
          ELSE Goto("devices_fill") /\ deviceCount' = n
  /\ UNCHANGED <<atexitHandlers, win, handles, backend, layerCount, extensionCount,
                 devices, function, instanceInfo, createInfo, selectDone,
                 shutdownCount, shutdownStep>>

\* enumerate_physical_devices, lines 112-121: the fill call.  The machine has
\* the devices `devs`; the handle of the device at position k is k.  More
\* devices than counted gives VK_INCOMPLETE.
DevicesFill ==
  /\ pc = "devices_fill"
  /\ \E devs \in DeviceLists :
     \E result \in {FillResult(deviceCount, Len(devs))} \cup EnumerationErrors :
       /\ Len(devs) >= deviceCount
       /\ Report("vkEnumeratePhysicalDevices(fill)", result, 0)
       /\ IF Failed(result)
          THEN Exit(EXIT_FAILURE) /\ UNCHANGED devices
          ELSE Goto("select") /\ devices' = devs
  /\ UNCHANGED <<atexitHandlers, win, handles, backend, layerCount, extensionCount,
                 deviceCount, function, instanceInfo, createInfo, selectDone,
                 shutdownCount, shutdownStep>>

\* Line 171: (queueFlags & VK_QUEUE_GRAPHICS_BIT) != 0, for a one-bit mask.
HasFlag(flags, bit) == ((flags \div bit) % 2) # 0

\* Lines 171-172: the requirement on device `device` and its family i (from 0).
Satisfies(device, i) ==
  /\ device.geometryShader
  /\ device.tessellationShader
  /\ HasFlag(device.queueFamilies[i + 1], VK_QUEUE_GRAPHICS_BIT)

\* SelectStep with a first-match rule: an existing selection is kept.
SelectStepFirstMatch(sel, handle, device, i) ==
  IF Satisfies(device, i) /\ sel.sPhysicalDevice = VK_NULL_HANDLE
  THEN [sPhysicalDevice |-> handle, sQueueFamilyIndex |-> i]
  ELSE sel

\* SelectStep with the index stored outside the `if`: it is written for
\* every family, the device only for a matching one.
SelectStepIndexAlways(sel, handle, device, i) ==
  [sPhysicalDevice |-> IF Satisfies(device, i) THEN handle ELSE sel.sPhysicalDevice,
   sQueueFamilyIndex |-> i]

\* Lines 172-175: one pass of the inner loop body on the retained selection.
SelectStep(sel, handle, device, i) ==
  IF Satisfies(device, i)
  THEN [sPhysicalDevice |-> handle, sQueueFamilyIndex |-> i]
  ELSE sel

\* Lines 164-176: the loop over the queue families of one device.
RECURSIVE FamilyLoop(_, _, _, _)
FamilyLoop(sel, handle, device, i) ==
  IF i >= Len(device.queueFamilies)
  THEN sel
  ELSE FamilyLoop(SelectStep(sel, handle, device, i), handle, device, i + 1)

\* Lines 150-177: the loop over the devices.
RECURSIVE DeviceLoop(_, _, _)
DeviceLoop(sel, devs, k) ==
  IF k > Len(devs)
  THEN sel
  ELSE DeviceLoop(FamilyLoop(sel, k, devs[k], 0), devs, k + 1)

\* Lines 145 and 194: assert(sInstance != VK_NULL_HANDLE).
AssertInstance == NDEBUG \/ sInstance # VK_NULL_HANDLE

\* AssertPhysicalDevice with the assertion left out.
AssertPhysicalDeviceOmitted == TRUE

\* Line 195: assert(sPhysicalDevice != VK_NULL_HANDLE).
AssertPhysicalDevice == NDEBUG \/ sPhysicalDevice # VK_NULL_HANDLE

\* select_vulkan_physical_device_and_queue_family, lines 145-177, after the
\* enumeration: the two loops.
Select ==
  /\ pc = "select"
  /\ IF AssertInstance
     THEN LET sel == DeviceLoop([sPhysicalDevice |-> sPhysicalDevice,
                                 sQueueFamilyIndex |-> sQueueFamilyIndex],
                                devices, 1)
          IN  /\ sPhysicalDevice' = sel.sPhysicalDevice
              /\ sQueueFamilyIndex' = sel.sQueueFamilyIndex
              /\ selectDone' = TRUE
              /\ Goto("create_logical_device")
     ELSE /\ Die("abort", EXIT_ABORT)
          /\ UNCHANGED <<sPhysicalDevice, sQueueFamilyIndex, selectDone>>
  /\ UNCHANGED <<atexitHandlers, win, sInstance, sLogicalDevice, sSurface, backend,
                 locals, calls, described, shutdownCount, shutdownStep>>

\* ------------------------------------------------------------------------
\* DeviceCreateInfoFor with no layer requested in either branch.
DeviceCreateInfoNoLayers(enabled, index) ==
  [queueFamilyIndex |-> index,
   queueCount |-> 1,
   layers |-> <<>>,
   enabledExtensionCount |-> 0,
   features |-> {},
   built |-> TRUE]

\* Lines 197-225: the queue descriptor, the feature set and the two branches
\* of `if (enableValidationLayers)`.
DeviceCreateInfoFor(enabled, index) ==
  [queueFamilyIndex |-> index,
   queueCount |-> 1,
   layers |-> IF enabled THEN VALIDATION_LAYERS ELSE <<>>,
   enabledExtensionCount |-> 0,
   features |-> {},
   built |-> TRUE]

\* create_logical_device, lines 197-225: the descriptor.
DeviceCreateInfo == DeviceCreateInfoFor(enableValidationLayers, sQueueFamilyIndex)

\* create_logical_device, lines 194-195: the assertions; the local vector of
\* select_vulkan_physical_device_and_queue_family is gone by now.
CreateLogicalDeviceEnter ==
  /\ pc = "create_logical_device"
  /\ devices' = <<>>
  /\ IF AssertInstance /\ AssertPhysicalDevice
     THEN Goto("vkCreateDevice")
     ELSE Die("abort", EXIT_ABORT)
  /\ UNCHANGED <<atexitHandlers, win, handles, backend, layerCount, extensionCount,
                 deviceCount, function, instanceInfo, createInfo, ghost, described>>

\* create_logical_device, lines 197-233.
CreateDevice ==
  /\ pc = "vkCreateDevice"
  /\ createInfo' = DeviceCreateInfo
  /\ \E result \in {VK_SUCCESS} \cup CreateErrors :
       /\ Report("vkCreateDevice", result, sPhysicalDevice)
       /\ IF Failed(result)
          THEN Exit(EXIT_FAILURE) /\ UNCHANGED <<sLogicalDevice, deviceLive>>
          ELSE Goto("vkGetInstanceProcAddr") /\ sLogicalDevice' = 1 /\ deviceLive' = TRUE
  /\ UNCHANGED <<atexitHandlers, win, sInstance, sPhysicalDevice, sQueueFamilyIndex,
                 sSurface, instanceLive, surfaceLive, layerCount, extensionCount,
                 deviceCount, devices, function, instanceInfo, selectDone,
                 shutdownCount, shutdownStep>>

\* EntryPointMissing with the check left out.
EntryPointMissingUnchecked(f) == FALSE

\* Line 252: if (!function).
EntryPointMissing(f) == ~f

\* create_window_surface, lines 245-255: resolve vkCreateWin32SurfaceKHR.
GetInstanceProcAddr ==
  /\ pc = "vkGetInstanceProcAddr"
  /\ \E f \in BOOLEAN :
       /\ function' = f
       /\ calls' = Append(calls,
                          Call("vkGetInstanceProcAddr",
                               IF f THEN VK_SUCCESS ELSE VK_ERROR_INITIALIZATION_FAILED,
                               sInstance))
       /\ IF EntryPointMissing(f)
          THEN Exit(EXIT_FAILURE)
          ELSE Goto("vkCreateWin32SurfaceKHR")
  /\ UNCHANGED <<atexitHandlers, win, handles, backend, layerCount, extensionCount,
                 deviceCount, devices, instanceInfo, createInfo, selectDone,
                 shutdownCount, shutdownStep, described>>

\* create_window_surface, lines 257-263.
CreateWin32Surface ==
  /\ pc = "vkCreateWin32SurfaceKHR"
  /\ \E result \in {VK_SUCCESS} \cup CreateErrors :
       /\ Report("vkCreateWin32SurfaceKHR", result, sInstance)
       /\ IF Failed(result)
          THEN Exit(EXIT_FAILURE) /\ UNCHANGED <<sSurface, surfaceLive>>
          ELSE Goto("message_loop") /\ sSurface' = 1 /\ surfaceLive' = TRUE
  /\ UNCHANGED <<atexitHandlers, win, sInstance, sPhysicalDevice, sQueueFamilyIndex,
                 sLogicalDevice, instanceLive, deviceLive, locals, selectDone,
                 shutdownCount, shutdownStep>>

\* ------------------------------------------------------------------------
\* DispatchMessage with a WndProc that drops the surface handle on WM_DESTROY.
DispatchMessageDropsSurface ==
  /\ pc = "message_loop"
  /\ windowLive
  /\ msgCount < MaxMessages
  /\ \E msg \in Messages :
       /\ windowLive' = (msg # "WM_CLOSE")
       /\ quitPosted' = (quitPosted \/ msg \in {"WM_CLOSE", "WM_DESTROY"})
       /\ sSurface' = IF msg \in {"WM_CLOSE", "WM_DESTROY"} THEN VK_NULL_HANDLE ELSE sSurface
  /\ msgCount' = msgCount + 1
  /\ Goto("message_loop")
  /\ UNCHANGED <<atexitHandlers, sHWND, classRegistered, sInstance, sPhysicalDevice,
                 sQueueFamilyIndex, sLogicalDevice, backend, locals, ghost, described>>

\* WinMain, lines 574-577, with WndProc, lines 472-484: one message is
\* retrieved and dispatched.  WM_CLOSE destroys the window, which sends
\* WM_DESTROY to WndProc before DestroyWindow returns; WM_DESTROY posts
\* WM_QUIT.  A destroyed window receives no further message.
DispatchMessage ==
  /\ pc = "message_loop"
  /\ windowLive
  /\ msgCount < MaxMessages
  /\ \E msg \in Messages :
       /\ windowLive' = (msg # "WM_CLOSE")
       /\ quitPosted' = (quitPosted \/ msg \in {"WM_CLOSE", "WM_DESTROY"})
  /\ msgCount' = msgCount + 1
  /\ Goto("message_loop")
  /\ UNCHANGED <<atexitHandlers, sHWND, classRegistered, handles, backend, locals, ghost, described>>

\* WinMain, line 574: GetMessage retrieves WM_QUIT and returns 0.
GetMessageQuit ==
  /\ pc = "message_loop"
  /\ quitPosted
  /\ Goto("WinMain_return")
  /\ UNCHANGED <<atexitHandlers, win, handles, backend, locals, ghost, described>>

\* WinMain, lines 579-581.  Line 579 reads hPrevInstance->unused, and Windows
\* always passes a null hPrevInstance: the read is undefined behaviour, which
\* either faults (the process dies with an access violation and no exit
\* handler runs) or goes unnoticed, after which `return 0` exits with status 0.
WinMainReturn ==
  /\ pc = "WinMain_return"
  /\ \E faults \in BOOLEAN :
       IF faults THEN Die("fault", EXIT_ACCESS_VIOLATION) ELSE Exit(0)
  /\ UNCHANGED <<atexitHandlers, win, handles, backend, locals, ghost, described>>

\* ------------------------------------------------------------------------
\* exit(): the registered handlers run in reverse order of registration, then
\* the process ends.
RunExitHandler ==
  /\ pc = "atexit"
  /\ IF atexitHandlers = <<>>
     THEN /\ pc' = "terminated"
          /\ UNCHANGED atexitHandlers
     ELSE /\ pc' = atexitHandlers[Len(atexitHandlers)]
          /\ atexitHandlers' = SubSeq(atexitHandlers, 1, Len(atexitHandlers) - 1)
  /\ UNCHANGED <<term, exitStatus, win, handles, backend, locals, ghost, described>>

\* destroy_window, lines 522-525.
DestroyWindowHandler ==
  /\ pc = "destroy_window"
  /\ windowLive' = FALSE
  /\ Goto("atexit")
  /\ UNCHANGED <<atexitHandlers, sHWND, classRegistered, quitPosted, msgCount, handles,
                 backend, locals, ghost, described>>

\* unregister_window_class, lines 489-492.
UnregisterWindowClassHandler ==
  /\ pc = "unregister_window_class"
  /\ classRegistered' = FALSE
  /\ Goto("atexit")
  /\ UNCHANGED <<atexitHandlers, sHWND, windowLive, quitPosted, msgCount, handles,
                 backend, locals, ghost, described>>

\* shutdown, line 461: if (sInstance != NULL).
ShutdownGuard == sInstance # VK_NULL_HANDLE

\* ShutdownOrder with the surface released before the device.
ShutdownOrderSurfaceFirst == <<"vkDestroySurfaceKHR", "vkDestroyDevice", "vkDestroyInstance">>

\* ShutdownOrder with the instance released first.
ShutdownOrderInstanceFirst == <<"vkDestroyInstance", "vkDestroyDevice", "vkDestroySurfaceKHR">>

\* ShutdownOrder with the surface never released.
ShutdownOrderNoSurface == <<"vkDestroyDevice", "vkDestroyInstance">>

\* shutdown, lines 462-464: the destroy calls, in the order issued.
ShutdownOrder == <<"vkDestroyDevice", "vkDestroySurfaceKHR", "vkDestroyInstance">>

\* The handle each destroy call of shutdown is given.
DestroyArgument(fn) ==
  CASE fn = "vkDestroyDevice" -> sLogicalDevice
    [] fn = "vkDestroySurfaceKHR" -> sSurface
    [] fn = "vkDestroyInstance" -> sInstance

\* shutdown, lines 459-461: entry and guard.
ShutdownEnter ==
  /\ pc = "shutdown"
  /\ shutdownCount' = shutdownCount + 1
  /\ shutdownStep' = 0
  /\ IF ShutdownGuard THEN Goto("shutdown_body") ELSE Goto("atexit")
  /\ UNCHANGED <<atexitHandlers, win, handles, backend, locals, calls, described,
                 selectDone>>

\* shutdown, lines 462-464: the next destroy call.  A destroy call given a
\* null handle is a call that destroys nothing.
ShutdownDestroy ==
  /\ pc = "shutdown_body"
  /\ LET fn == ShutdownOrder[shutdownStep + 1]
         handle == DestroyArgument(fn)
     IN  /\ calls' = Append(calls, Call(fn, VK_SUCCESS, handle))
         /\ deviceLive' = IF fn = "vkDestroyDevice" /\ handle # VK_NULL_HANDLE
                          THEN FALSE ELSE deviceLive
         /\ surfaceLive' = IF fn = "vkDestroySurfaceKHR" /\ handle # VK_NULL_HANDLE
                           THEN FALSE ELSE surfaceLive
         /\ instanceLive' = IF fn = "vkDestroyInstance" /\ handle # VK_NULL_HANDLE
                            THEN FALSE ELSE instanceLive
  /\ shutdownStep' = shutdownStep + 1
  /\ IF shutdownStep + 1 = Len(ShutdownOrder) THEN Goto("atexit") ELSE Goto("shutdown_body")
  /\ UNCHANGED <<atexitHandlers, win, handles, locals, described, selectDone,
                 shutdownCount>>

\* ------------------------------------------------------------------------
Next ==
  \/ WinMainStart
  \/ RegisterWindowClass
  \/ CreateWindow
  \/ LayersCount
  \/ LayersFill
  \/ ExtensionsCount
  \/ ExtensionsFill
  \/ CreateInstance
  \/ DevicesCount
  \/ DevicesFill
  \/ Select
  \/ CreateLogicalDeviceEnter
  \/ CreateDevice
  \/ GetInstanceProcAddr
  \/ CreateWin32Surface
  \/ DispatchMessage
  \/ GetMessageQuit
  \/ WinMainReturn
  \/ RunExitHandler
  \/ DestroyWindowHandler
  \/ UnregisterWindowClassHandler
  \/ ShutdownEnter
  \/ ShutdownDestroy

Spec == Init /\ [][Next]_vars

\* ------------------------------------------------------------------------
\* shutdown() called again by a caller after it has already run and returned.
\* WinMain never does so: atexit calls it once.  This is the function's
\* behaviour on a repeated call, lines 459-467 run again on the same globals.
ShutdownReinvoke ==
  /\ pc = "atexit"
  /\ atexitHandlers = <<>>
  /\ shutdownCount >= 1
  /\ shutdownCount < MaxShutdownCalls
  /\ Goto("shutdown")
  /\ UNCHANGED <<atexitHandlers, win, handles, backend, locals, ghost, described>>

NextReinvoke == Next \/ ShutdownReinvoke

SpecReinvoke == Init /\ [][NextReinvoke]_vars

\* ------------------------------------------------------------------------
\* vulkan_result_description on its own: any result code in, its text out.
ResultCodes == (-MaxResultCode)..MaxResultCode

InitDescribe ==
  /\ pc = "describe"
  /\ \E r \in ResultCodes : described = [result |-> r, text |-> <<>>]
  /\ InitGlobals

Describe ==
  /\ pc = "describe"
  /\ described' = [result |-> described.result,
                   text |-> vulkan_result_description(described.result)]
  /\ pc' = "described"
  /\ UNCHANGED <<atexitHandlers, term, exitStatus, win, handles, backend, locals, ghost>>

NextDescribe == Describe

SpecDescribe == InitDescribe /\ [][NextDescribe]_vars

\* ------------------------------------------------------------------------
\* Vocabulary of the properties.
DestroyFunctions == {"vkDestroyDevice", "vkDestroySurfaceKHR", "vkDestroyInstance"}
IsDestroy(c) == c.fn \in DestroyFunctions
DestroyCalls == SelectSeq(calls, IsDestroy)
DestroyLog == [i \in DOMAIN DestroyCalls |-> DestroyCalls[i].fn]
Issued(fn) == \E i \in DOMAIN calls : calls[i].fn = fn

ContextCreated == sInstance # VK_NULL_HANDLE
LogicalDeviceCreated == sLogicalDevice # VK_NULL_HANDLE
SurfaceCreated == sSurface # VK_NULL_HANDLE

\* shutdown() has been invoked and has returned.
ShutdownReturned == shutdownCount > 0 /\ pc \in {"atexit", "terminated"}

\* C1: when shutdown has run with Context, LogicalDevice and Surface all
\* created, the destroy calls issued are exactly LogicalDevice, Surface,
\* Context, in that order; when Context was never created, shutdown issues no
\* destroy call.
C1_ShutdownOrderAllCreated ==
  ShutdownReturned =>
    /\ (ContextCreated /\ LogicalDeviceCreated /\ SurfaceCreated)
         => DestroyLog = <<"vkDestroyDevice", "vkDestroySurfaceKHR", "vkDestroyInstance">>
    /\ ~ContextCreated => DestroyLog = <<>>

C1_Witness ==
  /\ ShutdownReturned
  /\ ContextCreated /\ LogicalDeviceCreated /\ SurfaceCreated
  /\ Len(DestroyCalls) = 3

\* C2: shutdown issues a destroy call for LogicalDevice only if LogicalDevice
\* was created and for Surface only if Surface was created; when only Context
\* was created, only Context is destroyed.
C2_DestroyGuardedByOwnHandle ==
  \A i \in DOMAIN calls :
    /\ calls[i].fn = "vkDestroyDevice" => LogicalDeviceCreated
    /\ calls[i].fn = "vkDestroySurfaceKHR" => SurfaceCreated

\* C3: shutdown has been invoked exactly once whenever the process has
\* terminated, whichever way it terminated.
C3_ShutdownOnceOnEveryExit ==
  pc = "terminated" => shutdownCount = 1

\* C4: a live LogicalDevice implies a live Context and a non-null selected
\* physical device; a live Surface implies a live Context; the Context is not
\* destroyed while the LogicalDevice or the Surface is live.
C4_LifecycleInvariant ==
  /\ deviceLive => (instanceLive /\ sPhysicalDevice # VK_NULL_HANDLE)
  /\ surfaceLive => instanceLive
  /\ (ContextCreated /\ ~instanceLive) => (~deviceLive /\ ~surfaceLive)

C4_Witness ==
  /\ LogicalDeviceCreated /\ SurfaceCreated
  /\ ContextCreated /\ ~instanceLive
  /\ Issued("vkDestroyInstance")

\* Position in `calls` of the successful call of `fn`, 0 when there is none.
CreatedAt(fn) ==
  IF \E i \in DOMAIN calls : calls[i].fn = fn /\ calls[i].result = VK_SUCCESS
  THEN CHOOSE i \in DOMAIN calls : calls[i].fn = fn /\ calls[i].result = VK_SUCCESS
  ELSE 0

\* Position in `calls` of the call of `fn` on a non-null handle, 0 when none.
DestroyedAt(fn) ==
  IF \E i \in DOMAIN calls : calls[i].fn = fn /\ calls[i].handle # VK_NULL_HANDLE
  THEN CHOOSE i \in DOMAIN calls : calls[i].fn = fn /\ calls[i].handle # VK_NULL_HANDLE
  ELSE 0

\* The three owned handles: the call that creates each, the call that destroys it.
OwnedHandles ==
  { [create |-> "vkCreateInstance", destroy |-> "vkDestroyInstance"],
    [create |-> "vkCreateDevice", destroy |-> "vkDestroyDevice"],
    [create |-> "vkCreateWin32SurfaceKHR", destroy |-> "vkDestroySurfaceKHR"] }

BothCreatedAndDestroyed(a, b) ==
  /\ CreatedAt(a.create) > 0 /\ CreatedAt(b.create) > 0
  /\ DestroyedAt(a.destroy) > 0 /\ DestroyedAt(b.destroy) > 0

\* C5 (as stated): of any two of Context, LogicalDevice and Surface that were
\* both created, the one created later is destroyed earlier.
C5_StrictReverseCreationOrder ==
  \A a, b \in OwnedHandles :
    (BothCreatedAndDestroyed(a, b) /\ CreatedAt(a.create) < CreatedAt(b.create))
      => DestroyedAt(b.destroy) < DestroyedAt(a.destroy)

\* C5 (amended): the Context, created first, is destroyed after the
\* LogicalDevice and after the Surface; the LogicalDevice, created before the
\* Surface, is also destroyed before the Surface.
C5_ContextLastDeviceBeforeSurface ==
  LET ctx == [create |-> "vkCreateInstance", destroy |-> "vkDestroyInstance"]
      dev == [create |-> "vkCreateDevice", destroy |-> "vkDestroyDevice"]
      srf == [create |-> "vkCreateWin32SurfaceKHR", destroy |-> "vkDestroySurfaceKHR"]
  IN  /\ \A x \in {dev, srf} :
           BothCreatedAndDestroyed(ctx, x)
             => /\ CreatedAt(ctx.create) < CreatedAt(x.create)
                /\ DestroyedAt(x.destroy) < DestroyedAt(ctx.destroy)
      /\ BothCreatedAndDestroyed(dev, srf)
           => /\ CreatedAt(dev.create) < CreatedAt(srf.create)
              /\ DestroyedAt(dev.destroy) < DestroyedAt(srf.destroy)
      /\ \A x \in {dev, srf} :
           (ShutdownReturned /\ CreatedAt(x.create) > 0) => DestroyedAt(x.destroy) > 0

C5_Witness ==
  /\ ShutdownReturned
  /\ CreatedAt("vkCreateInstance") > 0
  /\ CreatedAt("vkCreateDevice") > 0
  /\ CreatedAt("vkCreateWin32SurfaceKHR") > 0
  /\ DestroyedAt("vkDestroyDevice") > 0
  /\ DestroyedAt("vkDestroySurfaceKHR") > DestroyedAt("vkDestroyDevice")
  /\ DestroyedAt("vkDestroyInstance") > DestroyedAt("vkDestroySurfaceKHR")

\* The (device handle, family index) pairs of `devs` that meet the requirement.
Matches(devs) ==
  { p \in (1..Len(devs)) \X (0..(MaxFamilies + 1)) :
      /\ p[2] < Len(devs[p[1]].queueFamilies)
      /\ devs[p[1]].geometryShader
      /\ devs[p[1]].tessellationShader
      /\ devs[p[1]].queueFamilies[p[2] + 1] \div VK_QUEUE_GRAPHICS_BIT % 2 = 1 }

\* p comes before q in enumeration order: devices outer, families inner.
Before(p, q) == p[1] < q[1] \/ (p[1] = q[1] /\ p[2] < q[2])

\* The selection loop has just returned; its device list is still at hand.
SelectReturned == selectDone /\ pc = "create_logical_device"

\* C6: after select, the retained (physical device, queue family index) is the
\* last pair in enumeration order that meets the requirement; when devices
\* i1 < i2 both meet it, the retained device is i2, never i1.
C6_LastMatchWins ==
  SelectReturned =>
    \A p \in Matches(devices) :
      (\A q \in Matches(devices) : q = p \/ Before(q, p))
        => (sPhysicalDevice = p[1] /\ sQueueFamilyIndex = p[2])

C6_Witness ==
  /\ SelectReturned
  /\ \E p, q \in Matches(devices) : p[1] < q[1] /\ sPhysicalDevice = q[1]

\* C7 (as stated): with no pair meeting the requirement, the empty selection
\* is used downstream: nothing ends the process between the selection and the
\* logical-device creation call.
C7_EmptySelectionReachesCreateDevice ==
  (selectDone /\ sPhysicalDevice = VK_NULL_HANDLE /\ term # "none")
    => Issued("vkCreateDevice")

\* C7 (amended): with no pair meeting the requirement (zero devices included)
\* select returns with the selection at its initial state, null device and
\* index 0; the assertion at the head of create_logical_device then aborts the
\* process, and the logical-device creation call is never issued.
C7_EmptySelectionAborts ==
  /\ (SelectReturned /\ Matches(devices) = {})
       => (sPhysicalDevice = VK_NULL_HANDLE /\ sQueueFamilyIndex = 0 /\ term = "none")
  /\ (selectDone /\ sPhysicalDevice = VK_NULL_HANDLE)
       => /\ ~Issued("vkCreateDevice")
          /\ ~SelectReturned => (pc = "terminated" /\ term = "abort")

C7_Witness ==
  /\ selectDone /\ sPhysicalDevice = VK_NULL_HANDLE /\ sQueueFamilyIndex = 0
  /\ pc = "terminated" /\ term = "abort"
  /\ ~Issued("vkCreateDevice")

\* The fill calls of the layer and extension enumeration.
CapabilityFillCalls ==
  {"vkEnumerateInstanceLayerProperties(fill)", "vkEnumerateInstanceExtensionProperties(fill)"}

\* C8: a layer or extension fill call that reports an incomplete result is
\* informational only: the bootstrap goes on to its next call instead of
\* ending the process.
C8_IncompleteFillTolerated ==
  \A i \in DOMAIN calls :
    (calls[i].fn \in CapabilityFillCalls /\ calls[i].result = VK_INCOMPLETE /\ term # "none")
      => \E j \in DOMAIN calls : j > i /\ ~IsDestroy(calls[j])

\* C9: once a backend step has reported failure, only destroy calls follow;
\* no backend call is issued twice; and when the surface entry point is not
\* resolved, surface creation is never called and the Surface stays null.
C9_FailFastNoRetry ==
  /\ \A i, j \in DOMAIN calls :
       i < j => /\ calls[i].fn # calls[j].fn
                /\ calls[i].result # VK_SUCCESS => IsDestroy(calls[j])
  /\ (Issued("vkGetInstanceProcAddr") /\ ~function)
       => (~Issued("vkCreateWin32SurfaceKHR") /\ ~SurfaceCreated /\ ~surfaceLive)

C9_Witness ==
  /\ pc = "terminated"
  /\ Issued("vkGetInstanceProcAddr") /\ ~function
  /\ Issued("vkDestroyInstance")

\* Some backend call of the bootstrap was rejected.
BackendRejected ==
  \E i \in DOMAIN calls : ~IsDestroy(calls[i]) /\ calls[i].result # VK_SUCCESS

\* C10: the exit status is 0 when the bootstrap succeeded and the message loop
\* ended (the process cannot end after a complete bootstrap without leaving
\* the loop), and non-zero whenever a backend call was rejected.
C10_ExitStatus ==
  pc = "terminated" =>
    /\ SurfaceCreated => exitStatus = 0
    /\ BackendRejected => exitStatus # 0

\* C11: for every prefix of the bootstrap that created the Context (Context
\* only, Context and LogicalDevice, all three), once shutdown has returned
\* none of Context, LogicalDevice and Surface is live.
C11_NoResidentHandleAfterShutdown ==
  (ShutdownReturned /\ ContextCreated)
    => (~instanceLive /\ ~deviceLive /\ ~surfaceLive)

\* Context creation followed by shutdown with no device or surface in between.
C11_Witness ==
  /\ ShutdownReturned
  /\ ContextCreated /\ ~LogicalDeviceCreated /\ ~SurfaceCreated
  /\ ~instanceLive
  /\ Issued("vkDestroyInstance")

\* C12: a second invocation of shutdown issues no destroy call: no destroy
\* function is ever called twice, however many times shutdown is invoked.
C12_ShutdownIdempotent ==
  \A i, j \in DOMAIN calls :
    (i < j /\ IsDestroy(calls[i])) => calls[i].fn # calls[j].fn

\* C13: the layers and extensions requested at context creation depend on the
\* debug flag alone: enabled, they are the validation layer and the
\* debug-utilities and platform-surface extensions; disabled, both are empty.
C13_RequestedSetsFollowDebugFlag ==
  /\ instanceInfo.built =>
       IF enableValidationLayers
       THEN /\ instanceInfo.layers = <<"VK_LAYER_LUNARG_standard_validation">>
            /\ instanceInfo.extensions =
                 <<"VK_EXT_debug_utils", "VK_KHR_surface", "VK_KHR_win32_surface">>
       ELSE /\ instanceInfo.layers = <<>>
            /\ instanceInfo.extensions = <<>>
  /\ RequestedInstanceInfoFor(TRUE).layers = <<"VK_LAYER_LUNARG_standard_validation">>
  /\ RequestedInstanceInfoFor(TRUE).extensions =
       <<"VK_EXT_debug_utils", "VK_KHR_surface", "VK_KHR_win32_surface">>
  /\ RequestedInstanceInfoFor(FALSE).layers = <<>>
  /\ RequestedInstanceInfoFor(FALSE).extensions = <<>>

C13_Witness ==
  /\ instanceInfo.built
  /\ Issued("vkCreateInstance")
  /\ layerCount = 0 /\ extensionCount = 0
  /\ instanceInfo.layers # <<>>

\* C14: from the return of init until teardown begins, no step (the handling
\* of any window message, the end of the loop, the return of WinMain) changes
\* the Context, the selected physical device, the queue family index, the
\* LogicalDevice or the Surface handle.
C14_HandlesFrozenAfterInit ==
  [][(pc \in {"message_loop", "WinMain_return"}) => (handles' = handles)]_vars

\* WM_CLOSE and WM_DESTROY have been handled after a complete bootstrap.
C14_Witness ==
  /\ pc = "message_loop"
  /\ msgCount >= 2
  /\ ~windowLive /\ quitPosted
  /\ ContextCreated /\ LogicalDeviceCreated /\ SurfaceCreated
  /\ sPhysicalDevice # VK_NULL_HANDLE

\* The eight result codes of the fixed table.
TableCodes ==
  {VK_SUCCESS, VK_INCOMPLETE, VK_ERROR_OUT_OF_HOST_MEMORY, VK_ERROR_OUT_OF_DEVICE_MEMORY,
   VK_ERROR_INITIALIZATION_FAILED, VK_ERROR_LAYER_NOT_PRESENT,
   VK_ERROR_EXTENSION_NOT_PRESENT, VK_ERROR_INCOMPATIBLE_DRIVER}

\* The value of a digit character, -1 for any other piece.
DigitValue(c) ==
  IF \E d \in 0..9 : DigitChars[d + 1] = c
  THEN CHOOSE d \in 0..9 : DigitChars[d + 1] = c
  ELSE -1

\* The number a non-empty run of digit characters writes, -1 when it is no such run.
RECURSIVE ReadDigits(_)
ReadDigits(t) ==
  IF t = <<>> THEN -1
  ELSE IF DigitValue(t[Len(t)]) < 0 THEN -1
  ELSE IF Len(t) = 1 THEN DigitValue(t[1])
  ELSE IF ReadDigits(SubSeq(t, 1, Len(t) - 1)) < 0 THEN -1
  ELSE 10 * ReadDigits(SubSeq(t, 1, Len(t) - 1)) + DigitValue(t[Len(t)])

\* The run of pieces t writes the integer n in decimal.
Writes(t, n) ==
  IF n < 0
  THEN Len(t) >= 2 /\ t[1] = "-" /\ ReadDigits(SubSeq(t, 2, Len(t))) = -n
  ELSE ReadDigits(t) = n

\* The text contains the integer n written in decimal.
ContainsNumber(text, n) ==
  \E i, j \in 1..Len(text) : i <= j /\ Writes(SubSeq(text, i, j), n)

\* C15: for each of the eight codes of the table the description is that
\* code's own fixed string; for every other code it is a text that contains
\* the numeric value of the code.
C15_DescriptionTable ==
  pc = "described" =>
    LET r == described.result
        t == described.text
    IN  /\ r = VK_SUCCESS => t = <<"Command successfully completed.">>
        /\ r = VK_INCOMPLETE => t = <<"A return array was too small for the result.">>
        /\ r = VK_ERROR_OUT_OF_HOST_MEMORY => t = <<"A host memory allocation has failed.">>
        /\ r = VK_ERROR_OUT_OF_DEVICE_MEMORY
             => t = <<"A device memory allocation has failed.">>
        /\ r = VK_ERROR_INITIALIZATION_FAILED
             => t = <<"Initialization of an object could not be completed.">>
        /\ r = VK_ERROR_LAYER_NOT_PRESENT
             => t = <<"A requested layer is not present or could not be loaded.">>
        /\ r = VK_ERROR_EXTENSION_NOT_PRESENT
             => t = <<"A requested extension is not supported.">>
        /\ r = VK_ERROR_INCOMPATIBLE_DRIVER
             => t = <<"The requested version of Vulkan is not supported by the driver.">>
        /\ r \notin TableCodes => ContainsNumber(t, r)

\* A negative two-digit code outside the table has been described.
C15_Witness ==
  /\ pc = "described"
  /\ described.result = -11
  /\ described.text = <<"An unknown result code [", "-", "1", "1", "] occured.">>

\* C16: after select the retained selection is either the initial empty state
\* or a pair (d, i) where device d has the geometry and tessellation
\* features, i is an index into d's own queue family list and family i of d
\* is graphics-capable; the index never belongs to another device.
C16_SelectionIsEmptyOrValidPair ==
  SelectReturned =>
    \/ sPhysicalDevice = VK_NULL_HANDLE /\ sQueueFamilyIndex = 0
    \/ /\ sPhysicalDevice \in 1..Len(devices)
       /\ devices[sPhysicalDevice].geometryShader
       /\ devices[sPhysicalDevice].tessellationShader
       /\ sQueueFamilyIndex \in 0..(Len(devices[sPhysicalDevice].queueFamilies) - 1)
       /\ devices[sPhysicalDevice].queueFamilies[sQueueFamilyIndex + 1]
            \in {VK_QUEUE_GRAPHICS_BIT, VK_QUEUE_GRAPHICS_BIT + VK_QUEUE_COMPUTE_BIT}

\* The first device was retained although a later device with more queue
\* families, none of them matching, was visited after it.
C16_Witness ==
  /\ SelectReturned
  /\ Len(devices) = 2
  /\ sPhysicalDevice = 1
  /\ Len(devices[2].queueFamilies) > Len(devices[1].queueFamilies)

\* C17 (as stated): once the Context exists, device selection never ends the
\* process: a process that has ended after context creation has completed its
\* selection.
C17_SelectionNeverTerminates ==
  (ContextCreated /\ term # "none") => selectDone

\* C17 (amended): the two physical-device enumeration calls are checked: a
\* result other than success from either one ends the process with a failure
\* exit before any device is examined.  The selection loop that follows, whose
\* per-device queries return no result, issues no checked call and never ends
\* the process.
C17_EnumerationCheckedLoopUnchecked ==
  [][ /\ ( /\ pc \in {"devices_count", "devices_fill"}
           /\ Len(calls') = Len(calls) + 1
           /\ calls'[Len(calls')].result # VK_SUCCESS )
        => (pc' = "atexit" /\ term' = "exit" /\ exitStatus' = EXIT_FAILURE /\ ~selectDone')
      /\ (pc = "select")
        => (pc' = "create_logical_device" /\ term' = "none" /\ selectDone' /\ calls' = calls)
    ]_vars

\* The fill call of the device enumeration was rejected and the process exits.
C17_Witness ==
  /\ ContextCreated /\ ~selectDone
  /\ term = "exit" /\ exitStatus = EXIT_FAILURE
  /\ calls # <<>>
  /\ calls[Len(calls)].fn = "vkEnumeratePhysicalDevices(fill)"
  /\ calls[Len(calls)].result # VK_SUCCESS

\* C18: the layers requested at logical-device creation are the layers
\* requested at context creation (the validation layers with the debug flag
\* on, none with it off), and logical-device creation requests exactly one
\* queue, from the selected family, no extension and the empty feature set.
C18_DeviceLayersMirrorContext ==
  /\ createInfo.built =>
       /\ instanceInfo.built
       /\ createInfo.layers = instanceInfo.layers
       /\ createInfo.queueCount = 1
       /\ createInfo.queueFamilyIndex = sQueueFamilyIndex
       /\ createInfo.enabledExtensionCount = 0
       /\ createInfo.features = {}
  /\ \A enabled \in BOOLEAN :
       /\ DeviceCreateInfoFor(enabled, 0).layers = RequestedInstanceInfoFor(enabled).layers
       /\ DeviceCreateInfoFor(enabled, 0).layers
            = IF enabled THEN <<"VK_LAYER_LUNARG_standard_validation">> ELSE <<>>

\* A logical device was requested from the second queue family.
C18_Witness ==
  /\ createInfo.built
  /\ Issued("vkCreateDevice")
  /\ createInfo.queueFamilyIndex = 1
  /\ createInfo.layers # <<>>

\* C19: the window outlives the Surface bound to it: in no state, over every
\* order of window messages and every exit path with its exit handlers, is
\* the window destroyed while the Surface created from it is still live.
C19_WindowOutlivesSurface ==
  surfaceLive => windowLive

====
